---- MODULE Spec2Model ----
(***************************************************************************)
(* Sequence generation (random_generator.py, RandomGenerator) and the      *)
(* statistical test battery (statistical_tests.py, StatisticalTester).     *)
(*                                                                         *)
(* Reals are modelled exactly where the code's arithmetic is rational.     *)
(* A raw continuous sample is an integer number of HALVES (raw = 3 is the  *)
(* sample 1.5), so that truncation to an integer is not the identity.      *)
(* Library behaviour is that of NumPy >= 1.17 and SciPy >= 1.7; the one    *)
(* place where supported SciPy releases differ in outcome (kstest on an    *)
(* empty sample) is the state variable scipy, fixed for a whole run.       *)
(* The stand-alone tester of random_test.py (RandomNumberTester), which    *)
(* stores its own sequence, is the state variable rnt.                     *)
(***************************************************************************)
EXTENDS Integers, Sequences, FiniteSets, TLC

VARIABLES gen, tester, numbers, scipy, last, rnt

vars == <<gen, tester, numbers, scipy, last, rnt>>

(* ------------------------------ bounds --------------------------------- *)

\* largest declared range N of a generator call or tester
MaxN == 3
\* largest count asked of a single-distribution generator
MaxCount == 3
\* largest count asked of mixed_distribution
MaxMixCount == 2
\* longest sequence handed to the test battery
MaxLen == 4

\* the longest sequence handed to test_independence alone
MaxLongLen == 11

(* ------------------------------ helpers -------------------------------- *)

Min(a, b) == IF a <= b THEN a ELSE b

Max(a, b) == IF a >= b THEN a ELSE b

Abs(a) == IF a >= 0 THEN a ELSE 0 - a

RECURSIVE SumSeq(_)
SumSeq(s) == IF s = <<>> THEN 0 ELSE Head(s) + SumSeq(Tail(s))

\* number of positions of s holding v
Occurrences(s, v) == Cardinality({i \in 1..Len(s) : s[i] = v})

\* s and t hold the same elements with the same multiplicities
SameBag(s, t) ==
    /\ Len(s) = Len(t)
    /\ \A v \in {s[i] : i \in 1..Len(s)} \cup {t[i] : i \in 1..Len(t)} :
          Occurrences(s, v) = Occurrences(t, v)

\* all sequences of length n over S
SeqsOfLen(S, n) == [1..n -> S]

\* what a test call leaves behind: whether it raised, its result dict, and the
\* values of the locals the claims speak about
TestReturned(result, locals) ==
    [raised |-> FALSE, error |-> "", result |-> result, locals |-> locals]

TestRaised(error, locals) ==
    [raised |-> TRUE, error |-> error, result |-> [kind |-> "none"], locals |-> locals]

NoLocals == [none |-> TRUE]

\* no test has been called
NoTest == [op |-> "none", outcome |-> TestReturned([kind |-> "none"], NoLocals),
           repeat |-> FALSE]

\* a RandomNumberTester that holds no sequence
NoRandomNumberTester == [N |-> 1, random_numbers |-> <<>>]

(* ============================ RandomGenerator ========================== *)

\* the outcome of a call that returned: raw samples, returned array, and the
\* number of element samples drawn from the random source
Returned(raw, out, drawn) ==
    [status |-> "returned", error |-> "", raw |-> raw, out |-> out, drawn |-> drawn]

\* the outcome of a call that raised `error` after `drawn` element samples
Raised(error, drawn) ==
    [status |-> "raised", error |-> error, raw |-> <<>>, out |-> <<>>, drawn |-> drawn]

\* np.clip(x, lo, hi) == minimum(maximum(x, lo), hi), on halves
np_clip(x, lo, hi) == Min(Max(x, lo), hi)

\* ndarray.astype(int) on a float given in halves: truncation toward zero
astype_int(x) == IF x >= 0 THEN x \div 2 ELSE 0 - ((0 - x) \div 2)

\* faulty variant: the sample is wrapped modulo N instead of clamped
ClipWrapModulo(x, N) ==
    IF N <= 0 THEN astype_int(np_clip(x, 0, 2 * (N - 1))) ELSE astype_int(Abs(x)) % N

\* lines 45-46, 64-65, 83-84, 102-103: clip into [0, N-1], then astype(int)
ClipTruncate(x, N) == astype_int(np_clip(x, 0, 2 * (N - 1)))

ClipAll(raw, N) == [i \in 1..Len(raw) |-> ClipTruncate(raw[i], N)]

\* random.randint(0, N-1) for each of range(count): range(count) is empty for
\* count <= 0; randint raises ValueError on the empty range [0, N-1]
simple_random(N, count) ==
    IF count <= 0 THEN {Returned(<<>>, <<>>, 0)}
    ELSE IF N - 1 < 0 THEN {Raised("ValueError", 0)}
    ELSE {Returned(s, s, count) : s \in SeqsOfLen(0..(N - 1), count)}

\* np.random.randint(0, N, count): an empty result is returned before the
\* range is looked at; otherwise low >= high and a negative size raise
uniform_random(N, count) ==
    IF count = 0 THEN {Returned(<<>>, <<>>, 0)}
    ELSE IF N <= 0 \/ count < 0 THEN {Raised("ValueError", 0)}
    ELSE {Returned(s, s, count) : s \in SeqsOfLen(0..(N - 1), count)}

\* samples of np.random.normal(N/2, N/6): any real (here -0.5 .. N);
\* a standard deviation of 0 (N = 0) gives the mean itself
NormalSupport(N) == IF N = 0 THEN {0} ELSE (0 - 1)..(2 * N)

\* samples of np.random.exponential(N/4): any real >= 0
ExponentialSupport(N) == IF N = 0 THEN {0} ELSE 0..(2 * N)

\* samples of np.random.poisson(N/2): any integer >= 0
PoissonSupport(N) == IF N = 0 THEN {0} ELSE {2 * k : k \in 0..N}

\* samples of np.random.chisquare(df): any real > 0
ChiSquareSupport(N) == 1..(2 * N)

\* lines 41-46 for a sampler with the given support
ClippedSamples(support, N, count) ==
    IF count < 0 THEN {Raised("ValueError", 0)}
    ELSE {Returned(raw, ClipAll(raw, N), count) : raw \in SeqsOfLen(support, count)}

normal_random(N, count) == ClippedSamples(NormalSupport(N), N, count)

exponential_random(N, count) == ClippedSamples(ExponentialSupport(N), N, count)

poisson_random(N, count) == ClippedSamples(PoissonSupport(N), N, count)

\* df = int(N / 2); np.random.chisquare checks df > 0 before it looks at size
chi_square_df(N) == N \div 2

chi_square_random(N, count) ==
    IF chi_square_df(N) <= 0 THEN {Raised("ValueError", 0)}
    ELSE ClippedSamples(ChiSquareSupport(N), N, count)

(* --------------------------- mixed_distribution ------------------------ *)

\* weights=None: [0.2] * 5, written in units of 0.2 (line 119 normalises them)
DefaultWeights == <<1, 1, 1, 1, 1>>

\* the weight vectors a caller passes: the default, skewed vectors with zero
\* weights, and the malformed ones (zero sum, empty, too short)
WeightVectors ==
    { DefaultWeights, <<1, 0, 0, 0, 0>>, <<0, 0, 0, 0, 1>>, <<0, 3, 0, 1, 0>>,
      <<0, 0, 0, 0, 0>>, <<>>, <<1, 1, 1, 1>> }

\* five non-negative weights with a positive sum
WellFormedWeights(w) == Len(w) = 5 /\ SumSeq(w) > 0

\* random_binomial(p, n) with p = num / den: 0 for n = 0 or p = 0, n for p >= 1
Binomial(n, num, den) ==
    IF n = 0 \/ num = 0 THEN {0}
    ELSE IF num >= den THEN {n}
    ELSE 0..n

\* faulty variant: the last component is a binomial draw like the others
RECURSIVE MultinomialFromNoRemainder(_, _, _, _)
MultinomialFromNoRemainder(j, dn, rest, w) ==
    IF j = Len(w) THEN {<<k>> : k \in Binomial(dn, w[j], rest + 1)}
    ELSE UNION { { <<k>> \o t : t \in MultinomialFromNoRemainder(j + 1, dn - k, rest - w[j], w) }
                 : k \in Binomial(dn, w[j], rest) }

\* np.random.multinomial's loop from component j on, dn trials and probability
\* mass rest left: a binomial draw per component, the last takes the remainder
RECURSIVE MultinomialFrom(_, _, _, _)
MultinomialFrom(j, dn, rest, w) ==
    IF j = Len(w) THEN {<<dn>>}
    ELSE UNION { { <<k>> \o t : t \in MultinomialFrom(j + 1, dn - k, rest - w[j], w) }
                 : k \in Binomial(dn, w[j], rest) }

\* np.random.multinomial(count, weights / sum(weights)), weights non-empty
\* with a positive sum
multinomial(count, w) == MultinomialFrom(1, count, SumSeq(w), w)

\* the i-th sub-generator of lines 126-130
SubGenerator(i, N, c) ==
    CASE i = 1 -> uniform_random(N, c)
      [] i = 2 -> normal_random(N, c)
      [] i = 3 -> exponential_random(N, c)
      [] i = 4 -> poisson_random(N, c)
      [] i = 5 -> chi_square_random(N, c)

\* the outcome of mixed_distribution
MixOutcome(status, error, out, drawn, counts, asked, subs, parts) ==
    [status |-> status, error |-> error, out |-> out, drawn |-> drawn,
     counts |-> counts, asked |-> asked, subs |-> subs, parts |-> parts]

\* random.shuffle(numbers): every ordering of the list
shuffle(parts) ==
    { [i \in 1..Len(parts) |-> parts[f[i]]] : f \in Permutations(1..Len(parts)) }

\* lines 125-134 from sub-generator i on: counts[i-1] raises IndexError when the
\* split has fewer than i components; an exception of a sub-generator
\* propagates; after the fifth the list is shuffled and returned
RECURSIVE ExtendFrom(_, _, _, _, _, _, _)
ExtendFrom(i, N, counts, parts, subs, asked, drawn) ==
    IF i > 5
      THEN { MixOutcome("returned", "", out, drawn, counts, asked, subs, parts)
             : out \in shuffle(parts) }
    ELSE IF i > Len(counts)
      THEN { MixOutcome("raised", "IndexError", <<>>, drawn, counts, asked, subs, parts) }
    ELSE UNION {
           IF r.status = "raised"
             THEN { MixOutcome("raised", r.error, <<>>, drawn + r.drawn, counts,
                               Append(asked, counts[i]), subs, parts) }
             ELSE ExtendFrom(i + 1, N, counts, parts \o r.out, Append(subs, r.out),
                             Append(asked, counts[i]), drawn + r.drawn)
           : r \in SubGenerator(i, N, counts[i]) }

\* lines 115-134.  A zero sum turns the weights into NaN and multinomial raises
\* ValueError, as it does for count < 0; for an empty vector multinomial reads
\* before the start of pvals, so it raises ValueError or returns an empty split,
\* and then counts[0] raises IndexError
mixed_distribution(N, count, weights) ==
    IF weights = <<>>
      THEN { MixOutcome("raised", e, <<>>, 0, <<>>, <<>>, <<>>, <<>>)
             : e \in {"ValueError", "IndexError"} }
    ELSE IF SumSeq(weights) = 0 \/ count < 0
      THEN { MixOutcome("raised", "ValueError", <<>>, 0, <<>>, <<>>, <<>>, <<>>) }
    ELSE UNION { ExtendFrom(1, N, counts, <<>>, <<>>, <<>>, 0)
                 : counts \in multinomial(count, weights) }

(* ------------------------- generator operations ------------------------ *)

\* the N and count a caller passes (main.py: --N and --count are any integers)
GenNs == 0..MaxN

GenCounts == {0 - 1} \cup 0..MaxCount

MixCounts == {0 - 1} \cup 0..MaxMixCount

Variants ==
    {"simple_random", "uniform_random", "normal_random", "exponential_random",
     "poisson_random", "chi_square_random", "mixed_distribution"}

ClampVariants ==
    {"normal_random", "exponential_random", "poisson_random", "chi_square_random"}

NoCall ==
    [variant |-> "none", N |-> 0, count |-> 0, weights |-> <<>>,
     status |-> "idle", error |-> "", raw |-> <<>>, out |-> <<>>, drawn |-> 0,
     counts |-> <<>>, asked |-> <<>>, subs |-> <<>>, parts |-> <<>>]

\* the record of a finished call of a single-distribution generator
SingleCall(variant, N, count, r) ==
    [variant |-> variant, N |-> N, count |-> count, weights |-> <<>>,
     status |-> r.status, error |-> r.error, raw |-> r.raw, out |-> r.out,
     drawn |-> r.drawn, counts |-> <<>>, asked |-> <<>>, subs |-> <<>>,
     parts |-> <<>>]

\* the record of a finished call of mixed_distribution
MixedCall(N, count, weights, r) ==
    [variant |-> "mixed_distribution", N |-> N, count |-> count, weights |-> weights,
     status |-> r.status, error |-> r.error, raw |-> <<>>, out |-> r.out,
     drawn |-> r.drawn, counts |-> r.counts, asked |-> r.asked, subs |-> r.subs,
     parts |-> r.parts]

CallSimple ==
    /\ gen.status = "idle"
    /\ \E N \in GenNs, count \in GenCounts : \E r \in simple_random(N, count) :
          gen' = SingleCall("simple_random", N, count, r)
    /\ UNCHANGED <<tester, numbers, scipy, last, rnt>>

CallUniform ==
    /\ gen.status = "idle"
    /\ \E N \in GenNs, count \in GenCounts : \E r \in uniform_random(N, count) :
          gen' = SingleCall("uniform_random", N, count, r)
    /\ UNCHANGED <<tester, numbers, scipy, last, rnt>>

CallNormal ==
    /\ gen.status = "idle"
    /\ \E N \in GenNs, count \in GenCounts : \E r \in normal_random(N, count) :
          gen' = SingleCall("normal_random", N, count, r)
    /\ UNCHANGED <<tester, numbers, scipy, last, rnt>>

CallExponential ==
    /\ gen.status = "idle"
    /\ \E N \in GenNs, count \in GenCounts : \E r \in exponential_random(N, count) :
          gen' = SingleCall("exponential_random", N, count, r)
    /\ UNCHANGED <<tester, numbers, scipy, last, rnt>>

CallPoisson ==
    /\ gen.status = "idle"
    /\ \E N \in GenNs, count \in GenCounts : \E r \in poisson_random(N, count) :
          gen' = SingleCall("poisson_random", N, count, r)
    /\ UNCHANGED <<tester, numbers, scipy, last, rnt>>

CallChiSquare ==
    /\ gen.status = "idle"
    /\ \E N \in GenNs, count \in GenCounts : \E r \in chi_square_random(N, count) :
          gen' = SingleCall("chi_square_random", N, count, r)
    /\ UNCHANGED <<tester, numbers, scipy, last, rnt>>

CallMixed ==
    /\ gen.status = "idle"
    /\ \E N \in GenNs, count \in MixCounts, weights \in WeightVectors :
          \E r \in mixed_distribution(N, count, weights) :
             gen' = MixedCall(N, count, weights, r)
    /\ UNCHANGED <<tester, numbers, scipy, last, rnt>>

\* the caller drops the returned array (or handles the exception); the
\* generator methods are static and keep nothing between calls
Discard ==
    /\ gen.status # "idle"
    /\ gen' = NoCall
    /\ UNCHANGED <<tester, numbers, scipy, last, rnt>>

NextGen ==
    \/ Discard
    \/ CallSimple
    \/ CallUniform
    \/ CallNormal
    \/ CallExponential
    \/ CallPoisson
    \/ CallChiSquare
    \/ CallMixed

\* before any call; the tester side is not in use
InitGen ==
    /\ gen = NoCall
    /\ tester = [N |-> 1, count |-> 0]
    /\ numbers = <<>>
    /\ scipy = "nan_on_empty"
    /\ last = NoTest
    /\ rnt = NoRandomNumberTester

SpecGen == InitGen /\ [][NextGen]_vars

(* ====================== claims about the generator ===================== *)

RECURSIVE Flatten(_)
Flatten(ss) == IF ss = <<>> THEN <<>> ELSE Head(ss) \o Flatten(Tail(ss))

InRange(out, N) == \A i \in 1..Len(out) : out[i] \in 0..(N - 1)

\* C1: for every N > 0, every count >= 0 and each of the seven generators with
\* default parameters, the call completes without error and returns exactly
\* count integers, each in [0, N-1]
C1_EveryVariantReturnsCountInRange ==
    ( /\ gen.status # "idle"
      /\ gen.N > 0
      /\ gen.count >= 0
      /\ gen.variant = "mixed_distribution" => gen.weights = DefaultWeights )
    => ( /\ gen.status = "returned"
         /\ Len(gen.out) = gen.count
         /\ InRange(gen.out, gen.N) )

\* the value the clamp-then-truncate rule gives a raw sample (in halves)
ClampedValue(x, N) ==
    IF x > 2 * (N - 1) THEN N - 1
    ELSE IF x < 0 THEN 0
    ELSE CHOOSE q \in 0..x : 2 * q <= x /\ x < 2 * (q + 1)

\* C2: for the Normal, Exponential, Poisson and ChiSquare generators every
\* output element is its raw sample clamped into [0, N-1] and then truncated:
\* above N-1 it is exactly N-1, below 0 exactly 0, never wrapped or redrawn
C2_ClampThenTruncate ==
    (gen.variant \in ClampVariants /\ gen.status = "returned")
    => ( /\ Len(gen.out) = Len(gen.raw)
         /\ Len(gen.raw) = gen.count
         /\ \A i \in 1..Len(gen.out) : gen.out[i] = ClampedValue(gen.raw[i], gen.N) )

\* a Normal call returned a sample from above N-1, one from below 0 and a
\* fractional one inside the range
C2_Witness ==
    /\ gen.variant = "normal_random"
    /\ gen.status = "returned"
    /\ gen.N = 3
    /\ \E i, j, k \in 1..Len(gen.raw) :
          /\ gen.raw[i] > 2 * (gen.N - 1) /\ gen.out[i] = gen.N - 1
          /\ gen.raw[j] < 0 /\ gen.out[j] = 0
          /\ gen.raw[k] = 3 /\ gen.out[k] = 1

\* C3: in mixed_distribution with five non-negative weights of positive sum,
\* the five sub-counts sum to count, each sub-generator called is asked for
\* exactly its sub-count, and a returned sequence has length count and is a
\* permutation of the concatenation of the five sub-sequences
C3_MixedPartitionsCount ==
    ( /\ gen.variant = "mixed_distribution"
      /\ gen.status # "idle"
      /\ gen.count >= 0
      /\ WellFormedWeights(gen.weights) )
    => ( /\ Len(gen.counts) = 5
         /\ SumSeq(gen.counts) = gen.count
         /\ \A i \in 1..5 : gen.counts[i] >= 0
         /\ Len(gen.asked) <= 5
         /\ \A i \in 1..Len(gen.asked) : gen.asked[i] = gen.counts[i]
         /\ \A i \in 1..Len(gen.subs) : Len(gen.subs[i]) = gen.counts[i]
         /\ gen.status = "returned"
              => /\ Len(gen.asked) = 5
                 /\ Len(gen.subs) = 5
                 /\ Len(gen.out) = gen.count
                 /\ SameBag(gen.out, Flatten(gen.subs)) )

\* a mixed call with skewed weights (three of them zero) returned, two
\* sub-generators contributing
C3_Witness ==
    /\ gen.variant = "mixed_distribution"
    /\ gen.status = "returned"
    /\ gen.weights = <<0, 3, 0, 1, 0>>
    /\ gen.count = MaxMixCount
    /\ gen.counts[2] >= 1
    /\ gen.counts[4] >= 1
    /\ gen.out # gen.parts

\* a configuration the generator contract calls invalid
InvalidConfiguration ==
    \/ gen.N <= 0
    \/ gen.count < 0
    \/ gen.variant = "mixed_distribution" /\ ~WellFormedWeights(gen.weights)

\* C6: a generator call with an invalid configuration (N <= 0, count < 0, or a
\* malformed weight vector for Mixed) fails with an error before any sample is
\* drawn and never returns a sequence
C6_InvalidConfigurationFailsFast ==
    (gen.status # "idle" /\ InvalidConfiguration)
    => (gen.status = "raised" /\ gen.drawn = 0)

(* ============================ StatisticalTester ======================== *)

(* Floats.  NaN and the infinities are values of their own.  A rational     *)
(* result is kept exactly as num/den (den > 0); a square root of a rational  *)
(* as the rational under the root; a transcendental result in units of 1e-4. *)
NaN == [cls |-> "nan"]

PosInf == [cls |-> "inf", sign |-> 1]

NegInf == [cls |-> "inf", sign |-> 0 - 1]

Rat(n, d) == [cls |-> "rat", num |-> n, den |-> d]

SqrtRat(n, d) == [cls |-> "sqrt", num |-> n, den |-> d]

Fix4(v) == [cls |-> "fix4", e4 |-> v]

\* faulty variant: a NaN p-value passes
AboveAlphaOrNaN(p) == p # "at_most_0.05"

\* p_value > 0.05 on a p-value; NaN compares False
AboveAlpha(p) == p = "above_0.05"

\* np.bincount(numbers, minlength=N) for values in [0, N)
bincount(nums, N) == [v \in 0..(N - 1) |-> Occurrences(nums, v)]

RECURSIVE SumOver(_, _)
SumOver(f, S) ==
    IF S = {} THEN 0
    ELSE LET x == CHOOSE y \in S : TRUE IN f[x] + SumOver(f, S \ {x})

(* ------------------------------ test_uniformity ------------------------ *)

\* the 5% critical value of the chi-square distribution, in units of 1e-4:
\* stats.chisquare's p-value exceeds 0.05 exactly when the statistic is below it
ChiSquareCritical(df) ==
    CASE df = 1 -> 38415
      [] df = 2 -> 59915
      [] df = 3 -> 78147
      [] df = 4 -> 94877
      [] df = 5 -> 110705
      [] df = 6 -> 125916

\* lines 23-34.  observed has one bin per value below N and every bin expects
\* self.count / self.N.  stats.chisquare raises ValueError when the observed and the
\* expected frequencies do not sum to the same total (len(numbers) against
\* self.count); with both totals 0 every term is 0/0; with N = 1 the
\* distribution has 0 degrees of freedom and the p-value is NaN
test_uniformity(self, nums) ==
    LET observed == bincount(nums, self.N)
        n == Len(nums)
        chi2num == SumOver([v \in 0..(self.N - 1) |->
                               (self.N * observed[v] - self.count)
                               * (self.N * observed[v] - self.count)],
                           0..(self.N - 1))
        chi2den == self.N * self.count
        chi2 == IF self.count = 0 THEN NaN ELSE Rat(chi2num, chi2den)
        p_value == IF self.count = 0 \/ self.N = 1 THEN "nan"
                   ELSE IF chi2num * 10000 < ChiSquareCritical(self.N - 1) * chi2den
                          THEN "above_0.05"
                   ELSE "at_most_0.05"
        locals == [observed |-> observed, expected |-> Rat(self.count, self.N)]
    IN  IF n # self.count THEN TestRaised("ValueError", locals)
        ELSE TestReturned([kind |-> "uniformity", statistic |-> chi2,
                           p_value |-> p_value,
                           verdict |-> IF AboveAlpha(p_value) THEN "uniform"
                                       ELSE "not_uniform"],
                          locals)

(* ----------------------------- test_independence ----------------------- *)

\* line 47: lags = range(1, 11)
MaxLag == 10

\* np.correlate(numbers, numbers, mode='full')[len(numbers)-1:][k]
Correlation(nums, k) ==
    SumOver([i \in 1..(Len(nums) - k) |-> nums[i] * nums[i + k]], 1..(Len(nums) - k))

MaxOf(S) == CHOOSE x \in S : \A y \in S : y <= x

\* faulty variant: acf = autocorr[0:11], the lag-0 coefficient included
AcfLagsFromZero(n) == 0..Min(MaxLag, n - 1)

\* line 48: the lags held by acf = autocorr[1:11]; autocorr has n entries, so a
\* sequence shorter than 11 leaves acf with n - 1 of them
AcfLags(n) == 1..Min(MaxLag, n - 1)

\* lines 43-61.  np.correlate raises ValueError on an empty array; acf is
\* autocorr[1:11], so a sequence of length 1 leaves it empty and np.max raises
\* ValueError; an all-zero sequence makes every coefficient 0/0 = NaN, which
\* compares False.  |r_k| > 1.96/sqrt(n) is decided on the squares.
test_independence(self, nums) ==
    LET n == Len(nums)
        lags == AcfLags(n)
        a0 == Correlation(nums, 0)
        exceeds(k) == a0 # 0 /\ Correlation(nums, k) * Correlation(nums, k) * n * 10000
                                 > 38416 * a0 * a0
        significant == {k \in lags : exceeds(k)}
        listed == [i \in 1..Cardinality(significant) |->
                      CHOOSE k \in significant :
                         Cardinality({j \in significant : j <= k}) = i]
    IN  IF n = 0 THEN TestRaised("ValueError", NoLocals)
        ELSE IF lags = {} THEN TestRaised("ValueError", NoLocals)
        ELSE TestReturned(
               [kind |-> "independence",
                max_abs |-> IF a0 = 0 THEN NaN
                            ELSE Rat(MaxOf({Abs(Correlation(nums, k)) : k \in lags}), a0),
                significant_lags |-> listed,
                verdict |-> IF significant = {} THEN "independent" ELSE "not_independent"],
               [acf |-> lags])

(* --------------------------- test_gap_distribution --------------------- *)

\* faulty variant: last_pos keeps the first position of a value
RECURSIVE GapScanFromFirstSeen(_, _, _, _)
GapScanFromFirstSeen(i, nums, gaps, last_pos) ==
    IF i > Len(nums) THEN [gaps |-> gaps, last_pos |-> last_pos]
    ELSE IF nums[i] \in DOMAIN last_pos
      THEN GapScanFromFirstSeen(i + 1, nums, Append(gaps, i - last_pos[nums[i]]), last_pos)
    ELSE GapScanFromFirstSeen(i + 1, nums, gaps, (nums[i] :> i) @@ last_pos)

\* lines 73-76, from position i on: a value seen before appends the distance to
\* its last position; the position of every value is then recorded
RECURSIVE GapScanFrom(_, _, _, _)
GapScanFrom(i, nums, gaps, last_pos) ==
    IF i > Len(nums) THEN [gaps |-> gaps, last_pos |-> last_pos]
    ELSE GapScanFrom(i + 1, nums,
                     IF nums[i] \in DOMAIN last_pos
                       THEN Append(gaps, i - last_pos[nums[i]])
                       ELSE gaps,
                     (nums[i] :> i) @@ last_pos)

\* lines 69-76: gaps = [], last_pos = {}, then the scan
GapScan(nums) == GapScanFrom(1, nums, <<>>, <<>>)

SumSquares(s) == SumOver([i \in 1..Len(s) |-> s[i] * s[i]], 1..Len(s))

\* np.mean(gaps): NaN (with a warning) for an empty list
np_mean(s) == IF s = <<>> THEN NaN ELSE Rat(SumSeq(s), Len(s))

\* np.std(gaps): the root of the mean squared deviation, NaN for an empty list
np_std(s) ==
    IF s = <<>> THEN NaN
    ELSE SqrtRat(Len(s) * SumSquares(s) - SumSeq(s) * SumSeq(s), Len(s) * Len(s))

\* 100000 * exp(a/b) by its power series, in integer arithmetic
RECURSIVE ExpSeries(_, _, _, _)
ExpSeries(term, k, a, b) ==
    IF term = 0 THEN 0 ELSE term + ExpSeries((term * a) \div (b * k), k + 1, a, b)

\* 10000 * F(x), F the cdf of expon(loc=0, scale=b/a') at x, with x/scale = a/b
ExponCdfE4(a, b) == 10000 - (1000000000 \div ExpSeries(100000, 1, a, b))

\* the 5% critical value of the exact two-sided Kolmogorov distribution for a
\* sample of size n, in units of 1e-4: kstest's p-value exceeds 0.05 exactly
\* when the statistic is below it
KsCritical(n) ==
    CASE n = 1 -> 9750
      [] n = 2 -> 8419
      [] n = 3 -> 7076
      [] n = 4 -> 6239
      [] n = 5 -> 5633
      [] n = 6 -> 5193
      [] n = 7 -> 4834

\* the statistic of stats.kstest(gaps, 'expon', args=(0, mean_gap)), units of 1e-4
KsStatisticE4(gaps) ==
    LET n == Len(gaps)
        sorted == SortSeq(gaps, LAMBDA x, y : x < y)
        total == SumSeq(gaps)
        cdf(i) == ExponCdfE4(sorted[i] * n, total)
    IN  MaxOf({ Max((i * 10000) \div n - cdf(i), cdf(i) - ((i - 1) * 10000) \div n)
                : i \in 1..n })

\* lines 69-93.  With no gap the mean is NaN and stats.kstest gets an empty
\* sample: SciPy before 1.14 raises ValueError, SciPy from 1.14 on returns NaN
\* for the statistic and the p-value
test_gap_distribution(self, nums, version) ==
    LET scan == GapScan(nums)
        gaps == scan.gaps
        ks == IF gaps = <<>> THEN 0 ELSE KsStatisticE4(gaps)
        p_value == IF gaps = <<>> THEN "nan"
                   ELSE IF ks < KsCritical(Len(gaps)) THEN "above_0.05"
                   ELSE "at_most_0.05"
    IN  IF gaps = <<>> /\ version = "raise_on_empty"
          THEN TestRaised("ValueError", [gaps |-> gaps])
        ELSE TestReturned(
               [kind |-> "gap", mean_gap |-> np_mean(gaps), std_gap |-> np_std(gaps),
                ks_statistic |-> IF gaps = <<>> THEN NaN ELSE Fix4(ks),
                p_value |-> p_value,
                verdict |-> IF AboveAlpha(p_value) THEN "gaps_exponential"
                            ELSE "gaps_not_exponential"],
               [gaps |-> gaps])

(* --------------------------------- test_runs --------------------------- *)

\* faulty variant: the count starts at 0
RunsFromZero(nums) ==
    Cardinality({i \in 2..Len(nums) : nums[i] # nums[i - 1]})

\* lines 102-105: runs = 1, plus 1 wherever numbers[i] != numbers[i-1]
CountRuns(nums) ==
    1 + Cardinality({i \in 2..Len(nums) : nums[i] # nums[i - 1]})

\* faulty variant: n1 counts the value 0
CountOfZero(nums) == Occurrences(nums, 0)

\* line 108: n1 = np.sum(numbers == numbers[0])
CountOfFirstValue(nums) == Occurrences(nums, nums[1])

\* lines 102-125.  numbers[0] raises IndexError on an empty sequence.  The
\* variance is 0/0 = NaN for a single element; a zero variance makes z NaN
\* (0/0) or infinite; |z| < 1.959964 is decided on the squares
test_runs(self, nums) ==
    LET n == Len(nums)
        runs == CountRuns(nums)
        n1 == CountOfFirstValue(nums)
        n2 == n - n1
        diff == runs * n - n - 2 * n1 * n2
        var == 2 * n1 * n2 * (2 * n1 * n2 - n1 - n2)
        z == IF n = 1 THEN NaN
             ELSE IF var = 0
                    THEN (IF diff = 0 THEN NaN ELSE IF diff > 0 THEN PosInf ELSE NegInf)
             ELSE [cls |-> "signed_sqrt", sign |-> IF diff < 0 THEN 0 - 1 ELSE 1,
                   num |-> diff * diff * (n - 1), den |-> var]
        p_value == IF z = NaN THEN "nan"
                   ELSE IF z.cls = "inf" THEN "at_most_0.05"
                   ELSE IF z.num * 10000 < 38415 * z.den THEN "above_0.05"
                   ELSE "at_most_0.05"
    IN  IF n = 0 THEN TestRaised("IndexError", [runs |-> runs])
        ELSE TestReturned(
               [kind |-> "runs", runs |-> runs,
                expected_runs |-> Rat(n + 2 * n1 * n2, n),
                z |-> z, p_value |-> p_value,
                verdict |-> IF AboveAlpha(p_value) THEN "random" ELSE "not_random"],
               [runs |-> runs, n1 |-> n1, n2 |-> n2])

(* -------------------------------- test_entropy ------------------------- *)

\* -10000 * (k/n) * log2(k/n), rounded, for 0 < k <= n <= 6
PLog2E4(k, n) ==
    CASE k = n -> 0
      [] 2 * k = n -> 5000
      [] 3 * k = n -> 5283
      [] 3 * k = 2 * n -> 3900
      [] 4 * k = n -> 5000
      [] 4 * k = 3 * n -> 3113
      [] 5 * k = n -> 4644
      [] 5 * k = 2 * n -> 5288
      [] 5 * k = 3 * n -> 4422
      [] 5 * k = 4 * n -> 2575
      [] 6 * k = n -> 4308
      [] 6 * k = 5 * n -> 2192

\* 10000 * np.log2(N), rounded
Log2E4(N) ==
    CASE N = 1 -> 0
      [] N = 2 -> 10000
      [] N = 3 -> 15850
      [] N = 4 -> 20000
      [] N = 5 -> 23219
      [] N = 6 -> 25850

\* a value v = e4 * 1e-4 + eps * (1e-10 / ln 2): the second part is what the
\* smoothing constant of line 138 adds, to first order, once per non-empty bin
Smoothed(e4, eps) == [cls |-> "smoothed", e4 |-> e4, eps |-> eps]

\* lines 134-150.  An empty sequence makes every probability 0/0 = NaN.
\* p * log2(p + 1e-10) is p * log2(p) + 1e-10/ln 2 for p > 0 and 0 for p = 0,
\* so the entropy of a sequence with d distinct values is H - d * 1e-10/ln 2;
\* the ratio divides by log2(N), which is 0 for N = 1
test_entropy(self, nums) ==
    LET n == Len(nums)
        counts == bincount(nums, self.N)
        present == {v \in 0..(self.N - 1) : counts[v] > 0}
        h == SumOver([v \in present |-> PLog2E4(counts[v], n)], present)
        entropy == IF n = 0 THEN NaN ELSE Smoothed(h, 0 - Cardinality(present))
        max_entropy == Fix4(Log2E4(self.N))
        ratio == IF n = 0 THEN NaN
                 ELSE IF max_entropy.e4 = 0
                        THEN (IF h > 0 THEN PosInf ELSE NegInf)
                 ELSE Smoothed((h * 10000) \div max_entropy.e4, 0 - Cardinality(present))
        high == /\ ratio # NaN
                /\ \/ ratio = PosInf
                   \/ ratio.cls = "smoothed"
                      /\ (ratio.e4 > 9000 \/ (ratio.e4 = 9000 /\ ratio.eps > 0))
    IN  TestReturned(
          [kind |-> "entropy", entropy |-> entropy, max_entropy |-> max_entropy,
           ratio |-> ratio,
           verdict |-> IF high THEN "high_entropy" ELSE "low_entropy"],
          NoLocals)

(* -------------------------------- run_all_tests ------------------------ *)


\* lines 158-164: the bound methods, in order
Tests ==
    <<"test_uniformity", "test_independence", "test_gap_distribution", "test_runs",
      "test_entropy">>

\* the kind tag of each test's result dict, in the order of Tests
Kinds == <<"uniformity", "independence", "gap", "runs", "entropy">>

\* test(numbers) for the test of that name
RunTest(test, self, nums, version) ==
    CASE test = "test_uniformity" -> test_uniformity(self, nums)
      [] test = "test_independence" -> test_independence(self, nums)
      [] test = "test_gap_distribution" -> test_gap_distribution(self, nums, version)
      [] test = "test_runs" -> test_runs(self, nums)
      [] test = "test_entropy" -> test_entropy(self, nums)

\* faulty variant: the test stores the length it saw in self.count
InvokeStoringCount(test, self, nums, version) ==
    [outcome |-> RunTest(test, self, nums, version),
     self |-> [self EXCEPT !.count = Len(nums)], numbers |-> nums]

\* a call of one test and what it leaves of its arguments: lines 16-150 assign
\* to locals only, never to self.N, self.count or an element of numbers
Invoke(test, self, nums, version) ==
    [outcome |-> RunTest(test, self, nums, version), self |-> self, numbers |-> nums]

\* lines 166-170 from the i-th test on: an exception of a test propagates out
\* of the loop, nothing catches it
RECURSIVE RunFrom(_, _, _, _, _)
RunFrom(i, self, nums, results, version) ==
    IF i > Len(Tests)
      THEN [outcome |-> TestReturned(results, [executed |-> Len(Tests)]),
            self |-> self, numbers |-> nums]
    ELSE LET c == Invoke(Tests[i], self, nums, version)
         IN  IF c.outcome.raised
               THEN [outcome |-> TestRaised(c.outcome.error, [executed |-> i]),
                     self |-> c.self, numbers |-> c.numbers]
             ELSE RunFrom(i + 1, c.self, c.numbers, Append(results, c.outcome.result),
                          version)

\* lines 152-170
run_all_tests(self, nums, version) == RunFrom(1, self, nums, <<>>, version)

(* --------------------------- tester operations ------------------------- *)

\* StatisticalTester(N, count)
TesterNs == 1..MaxN

TesterCounts == 0..MaxLen

\* the sequences handed to the tests: integers in [0, N), any length
SequencesIn(N) == UNION {SeqsOfLen(0..(N - 1), n) : n \in 0..MaxLen}

\* the SciPy releases in use: kstest on an empty sample raises or returns NaN
ScipyVersions == {"raise_on_empty", "nan_on_empty"}

\* the caller's record of a call: which operation, what came of it, and
\* whether the call before it was the same operation
Call(op, c) ==
    /\ tester' = c.self
    /\ numbers' = c.numbers
    /\ last' = [op |-> op, outcome |-> c.outcome, repeat |-> last.op = op]
    /\ UNCHANGED <<gen, scipy, rnt>>

CallTestUniformity ==
    Call("test_uniformity", Invoke("test_uniformity", tester, numbers, scipy))

CallTestIndependence ==
    Call("test_independence", Invoke("test_independence", tester, numbers, scipy))

CallTestGapDistribution ==
    Call("test_gap_distribution", Invoke("test_gap_distribution", tester, numbers, scipy))

CallTestRuns ==
    Call("test_runs", Invoke("test_runs", tester, numbers, scipy))

CallTestEntropy ==
    Call("test_entropy", Invoke("test_entropy", tester, numbers, scipy))

CallRunAllTests ==
    Call("run_all_tests", run_all_tests(tester, numbers, scipy))

NextTest ==
    \/ CallTestUniformity
    \/ CallTestIndependence
    \/ CallTestGapDistribution
    \/ CallTestRuns
    \/ CallTestEntropy
    \/ CallRunAllTests

\* a tester constructed with some N and count, and a sequence to test
InitTest ==
    /\ gen = NoCall
    /\ tester \in [N : TesterNs, count : TesterCounts]
    /\ numbers \in SequencesIn(tester.N)
    /\ scipy \in ScipyVersions
    /\ last = NoTest
    /\ rnt = NoRandomNumberTester

SpecTest == InitTest /\ [][NextTest]_vars

(* ======================== claims about the tester ====================== *)

Distinct(nums) == {nums[i] : i \in 1..Len(nums)}

Constant(nums) == Len(nums) >= 1 /\ Cardinality(Distinct(nums)) = 1

NoRepeats(nums) == Cardinality(Distinct(nums)) = Len(nums)

\* the tester was configured with the length of the sequence, as main.py does
Consistent == tester.count = Len(numbers)

FiveInOrder(results) ==
    /\ Len(results) = 5
    /\ \A i \in 1..5 : results[i].kind = Kinds[i]

\* C4: run_all_tests on any non-empty sequence with values in [0, N) returns
\* exactly 5 result records in the order uniformity, independence, gap, runs,
\* entropy (length 1, no repeated value and constant sequences included)
C4_RunAllReturnsFiveInOrder ==
    (last.op = "run_all_tests" /\ Len(numbers) >= 1 /\ Consistent)
    => (~last.outcome.raised /\ FiveInOrder(last.outcome.result))

\* the input is degenerate for some test: empty, no repeated value (gap test),
\* or a single unique value (runs test)
Degenerate(nums) == nums = <<>> \/ NoRepeats(nums) \/ Constant(nums)

\* C5: on a degenerate input the affected test reports an undefined (NaN)
\* result and run_all_tests still returns the results of all five tests
C5_DegenerateInputIsConfined ==
    (last.op = "run_all_tests" /\ Degenerate(numbers) /\ Consistent)
    => ( /\ ~last.outcome.raised
         /\ FiveInOrder(last.outcome.result)
         /\ NoRepeats(numbers) => last.outcome.result[3].p_value = "nan"
         /\ Constant(numbers) => last.outcome.result[4].p_value = "nan" )

\* the positions whose value occurred earlier
RepeatPositions(nums) == {i \in 1..Len(nums) : \E j \in 1..(i - 1) : nums[j] = nums[i]}

\* the greatest earlier position holding the value of position i
PreviousOccurrence(nums, i) ==
    CHOOSE j \in 1..(i - 1) :
       /\ nums[j] = nums[i]
       /\ \A k \in (j + 1)..(i - 1) : nums[k] # nums[i]

\* nums is 0, 1, ..., P-1 repeated at least twice
Periodic(nums, P) ==
    /\ P >= 1
    /\ Len(nums) >= 2 * P
    /\ Len(nums) % P = 0
    /\ \A i \in 1..Len(nums) : nums[i] = (i - 1) % P

\* C7: the pooled gap list holds exactly one gap for every position whose value
\* occurred earlier, the distance to the greatest earlier position of that
\* value; so there are len - distinct gaps, each >= 1, and a sequence
\* 0..P-1 repeated at least twice has every gap P, mean gap P and deviation 0
C7_GapsAreDistancesToLastOccurrence ==
    last.op = "test_gap_distribution"
    => LET gaps == last.outcome.locals.gaps
           at(m) == CHOOSE i \in RepeatPositions(numbers) :
                       Cardinality({r \in RepeatPositions(numbers) : r <= i}) = m
       IN  /\ Len(gaps) = Cardinality(RepeatPositions(numbers))
           /\ Len(gaps) = Len(numbers) - Cardinality(Distinct(numbers))
           /\ \A m \in 1..Len(gaps) :
                 /\ gaps[m] = at(m) - PreviousOccurrence(numbers, at(m))
                 /\ gaps[m] >= 1
           /\ \A P \in 1..Len(numbers) :
                 Periodic(numbers, P)
                 => /\ \A m \in 1..Len(gaps) : gaps[m] = P
                    /\ ~last.outcome.raised
                    /\ last.outcome.result.mean_gap.cls = "rat"
                    /\ last.outcome.result.mean_gap.num
                          = P * last.outcome.result.mean_gap.den
                    /\ last.outcome.result.std_gap.cls = "sqrt"
                    /\ last.outcome.result.std_gap.num = 0

\* the gap test ran on 0, 1, 0, 1 and pooled the gaps 2, 2
C7_Witness ==
    /\ last.op = "test_gap_distribution"
    /\ numbers = <<0, 1, 0, 1>>
    /\ last.outcome.locals.gaps = <<2, 2>>
    /\ ~last.outcome.raised

\* C8: test_runs reports 1 plus the number of adjacent positions whose values
\* differ, and exactly 1 run for a constant sequence
C8_RunsCountBoundaries ==
    (last.op = "test_runs" /\ Len(numbers) >= 1)
    => /\ ~last.outcome.raised
       /\ last.outcome.result.runs
            = 1 + Cardinality({i \in 1..(Len(numbers) - 1) : numbers[i] # numbers[i + 1]})
       /\ Constant(numbers) => last.outcome.result.runs = 1

\* test_runs ran on a constant sequence of several elements and reported 1 run
C8_Witness ==
    /\ last.op = "test_runs"
    /\ Constant(numbers)
    /\ Len(numbers) = MaxLen
    /\ ~last.outcome.raised
    /\ last.outcome.result.runs = 1

\* a reported value that is 0 up to the smoothing term (below 1e-9)
ZeroWithinTolerance(x) == x.cls = "smoothed" /\ x.e4 = 0

\* C9: for a constant sequence test_entropy reports entropy 0 and ratio 0, for
\* every N >= 1 (N = 1 included), and the low-entropy verdict
C9_ConstantSequenceHasZeroEntropy ==
    (last.op = "test_entropy" /\ Constant(numbers))
    => /\ ~last.outcome.raised
       /\ ZeroWithinTolerance(last.outcome.result.entropy)
       /\ ZeroWithinTolerance(last.outcome.result.ratio)
       /\ last.outcome.result.verdict = "low_entropy"

\* C10: no test call changes the sequence or the tester's N and count, and an
\* operation called twice in a row on them gives the same result both times
C10_TestsLeaveInputsAndRepeat ==
    [][ /\ numbers' = numbers
        /\ tester' = tester
        /\ (last'.op = last.op => last'.outcome = last.outcome) ]_vars

\* run_all_tests ran twice in a row on a sequence of full length and returned
C10_Witness ==
    /\ last.op = "run_all_tests"
    /\ last.repeat
    /\ ~last.outcome.raised
    /\ Len(numbers) = MaxLen
    /\ tester.count = Len(numbers)

\* the same tester configured with another count
WithCount(self, c) == [self EXCEPT !.count = c]

\* C11: each of the five tests depends on the sequence and N only: a tester
\* with the same N and any other configured count gives the same result, or
\* the same failure, on the same sequence
C11_TestsIgnoreConfiguredCount ==
    \A i \in 1..Len(Tests) :
       last.op = Tests[i]
       => \A c \in TesterCounts :
             LET other == Invoke(Tests[i], WithCount(tester, c), numbers, scipy).outcome
             IN  /\ other.raised = last.outcome.raised
                 /\ other.error = last.outcome.error
                 /\ other.result = last.outcome.result

\* C12: test_uniformity bins a sequence with values in [0, N) into exactly N
\* categories, one per value below the declared N whatever the observed
\* maximum; every bin expects len(sequence) / N; and the observed counts sum to
\* the total of the expected counts, the length of the sequence
C12_UniformityBinsByDeclaredN ==
    last.op = "test_uniformity"
    => LET observed == last.outcome.locals.observed
           expected == last.outcome.locals.expected
       IN  /\ DOMAIN observed = 0..(tester.N - 1)
           /\ \A v \in DOMAIN observed : observed[v] = Occurrences(numbers, v)
           /\ expected.num * tester.N = Len(numbers) * expected.den
           /\ SumOver(observed, DOMAIN observed) = Len(numbers)
           /\ SumOver(observed, DOMAIN observed) * expected.den
                 = tester.N * expected.num

(* ------------------- test_independence on long sequences --------------- *)

\* binary sequences long enough for acf to hold all ten lags
LongSequencesIn(N) ==
    UNION {SeqsOfLen(0..Min(1, N - 1), n) : n \in (MaxLag + 1)..MaxLongLen}

\* a tester configured as main.py does, count = len(numbers), and a sequence of
\* any length up to MaxLongLen
InitLags ==
    /\ gen = NoCall
    /\ numbers \in UNION {SequencesIn(N) \cup LongSequencesIn(N) : N \in TesterNs}
    /\ tester \in {t \in [N : TesterNs, count : {Len(numbers)}] :
                     \A i \in 1..Len(numbers) : numbers[i] < t.N}
    /\ scipy = "nan_on_empty"
    /\ last = NoTest
    /\ rnt = NoRandomNumberTester

NextLags == CallTestIndependence

SpecLags == InitLags /\ [][NextLags]_vars

\* the sum of numbers[i] * numbers[i+k] over the pairs k apart: none for k >= n
LagProduct(nums, k) ==
    SumOver([i \in 1..(Len(nums) - k) |-> nums[i] * nums[i + k]], 1..(Len(nums) - k))

\* |r_k| > 1.96 / sqrt(n) for r_k = LagProduct(k) / LagProduct(0), on the squares
ExceedsBand(nums, k) ==
    /\ LagProduct(nums, 0) # 0
    /\ LagProduct(nums, k) * LagProduct(nums, k) * Len(nums) * 10000
          > 38416 * LagProduct(nums, 0) * LagProduct(nums, 0)

C14_RunsSplitByFirstValue ==
    (last.op = "test_runs" /\ Len(numbers) >= 1)
    => LET n1 == last.outcome.locals.n1
           n2 == last.outcome.locals.n2
           expected == last.outcome.result.expected_runs
       IN  /\ ~last.outcome.raised
           /\ n1 = Cardinality({i \in 1..Len(numbers) : numbers[i] = numbers[1]})
           /\ n2 = Len(numbers) - n1
           /\ n1 >= 1
           /\ n1 + n2 = Len(numbers)
           /\ expected.cls = "rat"
           /\ expected.den # 0
           /\ expected.num * (n1 + n2) = ((n1 + n2) + 2 * n1 * n2) * expected.den

\* test_runs ran on a sequence of three distinct values whose first is not 0
C14_Witness ==
    /\ last.op = "test_runs"
    /\ ~last.outcome.raised
    /\ Cardinality(Distinct(numbers)) >= 3
    /\ numbers[1] # 0
    /\ last.outcome.locals.n1 >= 2
    /\ last.outcome.locals.n2 >= 2

\* C15: with fewer than 2 gaps (none, or exactly one) test_gap_distribution
\* does not fit the exponential: it returns, without raising, a result whose
\* mean gap, KS statistic and p-value are NaN
C15_FewGapsReportUndefined ==
    (last.op = "test_gap_distribution" /\ Len(last.outcome.locals.gaps) < 2)
    => /\ ~last.outcome.raised
       /\ last.outcome.result.mean_gap = NaN
       /\ last.outcome.result.ks_statistic = NaN
       /\ last.outcome.result.p_value = "nan"

\* the two verdicts of a test with a p-value, the positive one first
Verdicts(kind) ==
    CASE kind = "uniformity" -> <<"uniform", "not_uniform">>
      [] kind = "gap" -> <<"gaps_exponential", "gaps_not_exponential">>
      [] kind = "runs" -> <<"random", "not_random">>
      [] kind = "entropy" -> <<"high_entropy", "low_entropy">>

\* a reported ratio strictly above 0.9: +inf, or e4 * 1e-4 plus the smoothing
\* term eps * 1.44e-10 above 9000 * 1e-4
AboveNineTenths(x) ==
    \/ x = PosInf
    \/ /\ x.cls = "smoothed"
       /\ \/ x.e4 > 9000
          \/ x.e4 = 9000 /\ x.eps > 0

\* the verdict of one result record follows from its p-value, or from its ratio
VerdictFollows(r) ==
    CASE r.kind \in {"uniformity", "gap", "runs"} ->
           /\ r.verdict \in {Verdicts(r.kind)[1], Verdicts(r.kind)[2]}
           /\ r.p_value \in {"above_0.05", "at_most_0.05", "nan"}
           /\ r.verdict = Verdicts(r.kind)[1] <=> r.p_value = "above_0.05"
      [] r.kind = "entropy" ->
           /\ r.verdict \in {Verdicts(r.kind)[1], Verdicts(r.kind)[2]}
           /\ r.verdict = Verdicts(r.kind)[1] <=> AboveNineTenths(r.ratio)
      [] OTHER -> TRUE

\* C16: the verdict of the uniformity, gap and runs tests is one of two values,
\* the positive one if and only if the p-value is strictly greater than 0.05,
\* so a p-value of 0.05 or a NaN p-value gives the negative one; the verdict of
\* the entropy test is positive if and only if the ratio is strictly above 0.9
C16_VerdictFollowsThreshold ==
    ~last.outcome.raised
    => IF last.op = "run_all_tests"
         THEN \A i \in 1..Len(last.outcome.result) : VerdictFollows(last.outcome.result[i])
       ELSE VerdictFollows(last.outcome.result)

\* run_all_tests returned a NaN p-value with the negative verdict next to a
\* p-value above 0.05 with the positive one
C16_Witness ==
    /\ last.op = "run_all_tests"
    /\ ~last.outcome.raised
    /\ \E i, j \in 1..Len(last.outcome.result) :
          LET a == last.outcome.result[i]
              b == last.outcome.result[j]
          IN  /\ a.kind \in {"uniformity", "gap", "runs"}
              /\ b.kind \in {"uniformity", "gap", "runs"}
              /\ a.p_value = "nan"
              /\ a.verdict = Verdicts(a.kind)[2]
              /\ b.p_value = "above_0.05"
              /\ b.verdict = Verdicts(b.kind)[1]

(* ============== RandomNumberTester (random_test.py) ==================== *)

\* the ValueError of the guard 'if not self.random_numbers' (lines 34-35,
\* 64-65, 96-97, 114-115, 145-146)
GuardError == "ValueError(generate random numbers first)"

\* the ValueError of random.randint(0, N-1) for N <= 0
EmptyRangeError == "ValueError(empty range for randrange)"

\* faulty variant: the draws are appended to the stored sequence
generate_random_numbers_extending(self, count) ==
    IF count >= 1 /\ self.N <= 0
      THEN {[outcome |-> TestRaised(EmptyRangeError, [count |-> count]), self |-> self]}
    ELSE {[outcome |-> TestReturned(drawn, [count |-> count]),
           self |-> [self EXCEPT !.random_numbers = self.random_numbers \o drawn]]
          : drawn \in SeqsOfLen(0..(self.N - 1), Max(count, 0))}

\* lines 19-26: count draws of random.randint(0, self.N - 1), inclusive at both
\* ends, assigned to self.random_numbers in place of what it held; range(count)
\* is empty for count <= 0, so nothing is drawn; a draw with N <= 0 raises and
\* the assignment does not happen.  The outcomes are all the draws possible.
generate_random_numbers(self, count) ==
    IF count >= 1 /\ self.N <= 0
      THEN {[outcome |-> TestRaised(EmptyRangeError, [count |-> count]), self |-> self]}
    ELSE {[outcome |-> TestReturned(drawn, [count |-> count]),
           self |-> [self EXCEPT !.random_numbers = drawn]]
          : drawn \in SeqsOfLen(0..(self.N - 1), Max(count, 0))}

\* lines 28-56: chi_square = sum((freq[i] - expected_freq)^2 / expected_freq)
\* over range(N), with expected_freq = len / N; the p-value is
\* 1 - chi2.cdf(chi_square, N - 1), NaN for 0 degrees of freedom
test_frequency_distribution(self) ==
    LET nums == self.random_numbers
        n == Len(nums)
        freq == [i \in 0..(self.N - 1) |-> Occurrences(nums, i)]
        num == SumOver([i \in 0..(self.N - 1) |->
                           (self.N * freq[i] - n) * (self.N * freq[i] - n)],
                       0..(self.N - 1))
        p_value == IF self.N = 1 THEN "nan"
                   ELSE IF num * 10000 < ChiSquareCritical(self.N - 1) * self.N * n
                          THEN "above_0.05"
                   ELSE "at_most_0.05"
    IN  IF nums = <<>> THEN TestRaised(GuardError, NoLocals)
        ELSE TestReturned([chi_square |-> Rat(num, self.N * n), p_value |-> p_value,
                           is_uniform |-> AboveAlpha(p_value)],
                          NoLocals)

\* lines 71-74, from position i on: gaps[num] collects the distances between
\* successive positions of num ('num in last_pos' adds no entry to last_pos)
RECURSIVE GapsByValueFrom(_, _, _, _)
GapsByValueFrom(i, nums, gaps, last_pos) ==
    IF i > Len(nums) THEN gaps
    ELSE GapsByValueFrom(
           i + 1, nums,
           IF nums[i] \in DOMAIN last_pos
             THEN (nums[i] :> Append(IF nums[i] \in DOMAIN gaps THEN gaps[nums[i]] ELSE <<>>,
                                     i - last_pos[nums[i]])) @@ gaps
             ELSE gaps,
           (nums[i] :> i) @@ last_pos)

MinOf(S) == CHOOSE x \in S : \A y \in S : x <= y

\* lines 58-88: mean, deviation, least and greatest gap of every value below N
\* that occurred at least twice
RNT_test_gap_distribution(self) ==
    LET nums == self.random_numbers
        gaps == GapsByValueFrom(1, nums, <<>>, <<>>)
        stats(g) == [mean |-> np_mean(g), std |-> np_std(g),
                     min |-> MinOf({g[j] : j \in 1..Len(g)}),
                     max |-> MaxOf({g[j] : j \in 1..Len(g)})]
    IN  IF nums = <<>> THEN TestRaised(GuardError, NoLocals)
        ELSE TestReturned([num \in (DOMAIN gaps) \cap 0..(self.N - 1) |-> stats(gaps[num])],
                          NoLocals)

\* lines 90-106: pandas' Series.autocorr(), the Pearson correlation of the
\* series with itself shifted by one, over the len - 1 pairs; NaN with fewer
\* than 2 pairs or a side without variance; abs(NaN) < 0.1 is False.
\* |r| < 0.1 is decided on the squares
test_serial_correlation(self) ==
    LET nums == self.random_numbers
        m == Len(nums) - 1
        pairs == 1..m
        sx == SumOver([i \in pairs |-> nums[i + 1]], pairs)
        sy == SumOver([i \in pairs |-> nums[i]], pairs)
        sxy == SumOver([i \in pairs |-> nums[i + 1] * nums[i]], pairs)
        sxx == SumOver([i \in pairs |-> nums[i + 1] * nums[i + 1]], pairs)
        syy == SumOver([i \in pairs |-> nums[i] * nums[i]], pairs)
        cov == m * sxy - sx * sy
        var == (m * sxx - sx * sx) * (m * syy - sy * sy)
        autocorr == IF var = 0 THEN NaN
                    ELSE [cls |-> "signed_sqrt", sign |-> IF cov < 0 THEN 0 - 1 ELSE 1,
                          num |-> cov * cov, den |-> var]
    IN  IF nums = <<>> THEN TestRaised(GuardError, NoLocals)
        ELSE TestReturned([autocorrelation |-> autocorr,
                           is_independent |-> var # 0 /\ cov * cov * 100 < var],
                          NoLocals)

\* lines 108-137: runs as in the battery; expected_runs = (2n - 1) / 3,
\* variance = (16n - 29) / 90, negative for n = 1, where np.sqrt gives NaN;
\* |z| < 1.959964 is decided on the squares
RNT_test_runs(self) ==
    LET nums == self.random_numbers
        n == Len(nums)
        runs == CountRuns(nums)
        diff == 3 * runs - (2 * n - 1)
        z == IF 16 * n - 29 < 0 THEN NaN
             ELSE [cls |-> "signed_sqrt", sign |-> IF diff < 0 THEN 0 - 1 ELSE 1,
                   num |-> diff * diff * 10, den |-> 16 * n - 29]
        p_value == IF z = NaN THEN "nan"
                   ELSE IF z.num * 10000 < 38415 * z.den THEN "above_0.05"
                   ELSE "at_most_0.05"
    IN  IF nums = <<>> THEN TestRaised(GuardError, NoLocals)
        ELSE TestReturned([runs |-> runs, expected_runs |-> Rat(2 * n - 1, 3),
                           z_score |-> z, p_value |-> p_value,
                           is_random |-> AboveAlpha(p_value)],
                          NoLocals)

\* lines 139-166: the entropy over the values that occur, no smoothing; the
\* ratio divides by log2(N), 0.0/0.0 = NaN for N = 1
RNT_test_entropy(self) ==
    LET nums == self.random_numbers
        n == Len(nums)
        present == {i \in 0..(self.N - 1) : Occurrences(nums, i) > 0}
        h == SumOver([i \in present |-> PLog2E4(Occurrences(nums, i), n)], present)
        max_entropy == Log2E4(self.N)
    IN  IF nums = <<>> THEN TestRaised(GuardError, NoLocals)
        ELSE TestReturned([entropy |-> Fix4(h), max_entropy |-> Fix4(max_entropy),
                           entropy_ratio |-> IF max_entropy = 0 THEN NaN
                                             ELSE Fix4((h * 10000) \div max_entropy)],
                          NoLocals)

(* ---------------------- RandomNumberTester operations ------------------ *)

\* RandomNumberTester(N)
RntNs == 0..MaxN

\* the five tests of RandomNumberTester
RntTests ==
    {"test_frequency_distribution", "test_gap_distribution", "test_serial_correlation",
     "test_runs", "test_entropy"}

\* self.<test>() for the test of that name
RntRunTest(test, self) ==
    CASE test = "test_frequency_distribution" -> test_frequency_distribution(self)
      [] test = "test_gap_distribution" -> RNT_test_gap_distribution(self)
      [] test = "test_serial_correlation" -> test_serial_correlation(self)
      [] test = "test_runs" -> RNT_test_runs(self)
      [] test = "test_entropy" -> RNT_test_entropy(self)

\* a call of one test and what it leaves of self: the tests assign to locals
\* only, never to self.N or self.random_numbers
RntInvoke(test, self) == [outcome |-> RntRunTest(test, self), self |-> self]

\* the caller's record of a call on the RandomNumberTester
RntCall(op, c) ==
    /\ rnt' = c.self
    /\ last' = [op |-> op, outcome |-> c.outcome, repeat |-> last.op = op]
    /\ UNCHANGED <<gen, tester, numbers, scipy>>

GenerateRandomNumbers ==
    \E count \in GenCounts :
       \E c \in generate_random_numbers(rnt, count) :
          RntCall("generate_random_numbers", c)

RntTestFrequencyDistribution ==
    RntCall("test_frequency_distribution", RntInvoke("test_frequency_distribution", rnt))

RntTestGapDistribution ==
    RntCall("test_gap_distribution", RntInvoke("test_gap_distribution", rnt))

RntTestSerialCorrelation ==
    RntCall("test_serial_correlation", RntInvoke("test_serial_correlation", rnt))

RntTestRuns ==
    RntCall("test_runs", RntInvoke("test_runs", rnt))

RntTestEntropy ==
    RntCall("test_entropy", RntInvoke("test_entropy", rnt))

NextRnt ==
    \/ GenerateRandomNumbers
    \/ RntTestFrequencyDistribution
    \/ RntTestGapDistribution
    \/ RntTestSerialCorrelation
    \/ RntTestRuns
    \/ RntTestEntropy

\* lines 11-17: a tester constructed with some N, holding no sequence
InitRnt ==
    /\ gen = NoCall
    /\ tester = [N |-> 1, count |-> 0]
    /\ numbers = <<>>
    /\ scipy = "nan_on_empty"
    /\ last = NoTest
    /\ rnt \in [N : RntNs, random_numbers : {<<>>}]

SpecRnt == InitRnt /\ [][NextRnt]_vars

(* =================== claims about RandomNumberTester =================== *)

\* C17: in any interleaving of generate and test calls on a RandomNumberTester,
\* a test called while the stored sequence is empty (no generate call yet, or
\* generate_random_numbers(0)) raises the guard's ValueError and leaves N and
\* random_numbers as they were; generate_random_numbers(count) with count >= 1
\* stores exactly count elements in [0, N-1] in place of the earlier sequence,
\* and with a sequence stored no test raises the guard's error
C17_GuardOnEmptySequenceOnly ==
    [][ /\ last'.op \in RntTests
           => /\ rnt' = rnt
              /\ rnt.random_numbers = <<>>
                 => (last'.outcome.raised /\ last'.outcome.error = GuardError)
              /\ rnt.random_numbers # <<>>
                 => last'.outcome.error # GuardError
        /\ (last'.op = "generate_random_numbers" /\ ~last'.outcome.raised)
           => /\ rnt'.N = rnt.N
              /\ last'.outcome.result = rnt'.random_numbers
              /\ last'.outcome.locals.count = 0 => rnt'.random_numbers = <<>>
              /\ last'.outcome.locals.count >= 1
                 => /\ Len(rnt'.random_numbers) = last'.outcome.locals.count
                    /\ \A i \in 1..Len(rnt'.random_numbers) :
                          rnt'.random_numbers[i] \in 0..(rnt.N - 1) ]_vars

\* after generate_random_numbers stored a sequence of MaxCount elements,
\* test_runs ran on it and returned
C17_Witness ==
    /\ last.op = "test_runs"
    /\ ~last.outcome.raised
    /\ Len(rnt.random_numbers) = MaxCount
    /\ rnt.N >= 2
    /\ last.outcome.result.runs >= 2

====
